---- MODULE Spec2Model ----
(***************************************************************************)
(* The check execution engine of modelChecker: Runner (runner.py), the     *)
(* checks' base class (validation_check_base.py), the scene enumeration    *)
(* (maya_utility.py) and the UI handlers that drive the Runner             *)
(* (model_checker.py).                                                     *)
(*                                                                         *)
(* The program is single-threaded.  Runner.run() is a long call that hands *)
(* control to the host's event loop at every QApplication.processEvents()  *)
(* of an entity iterator; the handlers of the UI (Escape, Run, Run all,    *)
(* Clear) run inside that call, on top of the suspended run().  The model  *)
(* keeps the suspended run() calls in `stack`; every action is the code    *)
(* that runs between two such yield points.                                *)
(***************************************************************************)
EXTENDS Integers, Sequences, FiniteSets, TLC

VARIABLES
    current_check,            \* Runner.current_check (None or a check name)
    current_number_check,     \* Runner.current_number_check
    scheduled_checks_amount,  \* Runner.scheduled_checks_amount
    current_context,          \* Runner.current_context
    contexts,                 \* Runner.contexts: scope -> reference to its {"maya": {}, "usd": {}}
    interrupt,                \* Runner.interrupt
    result_object,            \* Runner.result_object
    nodes,                    \* Runner.nodes
    usd_nodes,                \* Runner.usd_nodes
    cached_data,              \* Runner.cached_data
    cached_from,              \* the value of Runner.nodes that cached_data was computed from
    heap,                     \* the {"maya": {}, "usd": {}} objects, by reference
    stack,                    \* the run() calls suspended in processEvents(), innermost last
    calls,                    \* number of run() calls made so far
    events,                   \* what the last action did: signals emitted, checks started, entities yielded
    host_scene,               \* the scene of the host, as cmds.ls / listRelatives / nodeType read it
    report                    \* SpecReport: a stored check result and what the renderers made of it; SpecUi: the widgets of the window

vars == <<current_check, current_number_check, scheduled_checks_amount, current_context,
          contexts, interrupt, result_object, nodes, usd_nodes, cached_data, cached_from,
          heap, stack,
          calls, events, host_scene, report>>

-----------------------------------------------------------------------------
(* Bounds of the model. *)

\* run() calls that may be suspended at a yield point at the same time
MaxDepth == 2

\* run() calls in one behaviour
MaxCalls == 2

\* SpecDeep lets the user start a run MaxCallsDeep times
MaxCallsDeep == 3

\* component indices of a mesh (faces, edges, vertices, UVs) are 1..MaxIndex
MaxIndex == 3

\* the user has at most MaxSel entities selected when a context is resolved
MaxSel == 2

-----------------------------------------------------------------------------
(* Values. *)

None == "None"

MAYA == "MAYA"

USD == "USD"

BOTH == "BOTH"

DataType == {MAYA, USD, BOTH}

\* Python's {} and []: both are the empty function.
EmptyDict == << >>

\* Identifiers are strings; the code reads their first character, so they are
\* kept as sequences of characters.  A native identifier is a UUID, an external
\* one is "<proxy shape path>,<prim path>" and starts with "|".
N1 == <<"a", "1">>

N2 == <<"b", "2">>

U1 == <<"|", "p", ",", "/", "x", "1">>

\* d with d[k] = v, as the Python statement d[k] = v leaves it
Put(d, k, v) == [x \in (DOMAIN d) \cup {k} |-> IF x = k THEN v ELSE d[x]]

Last(s) == s[Len(s)]

Front(s) == SubSeq(s, 1, Len(s) - 1)

-----------------------------------------------------------------------------
(* The scene of the host, as maya_utility.get_all_nodes() reads it: the     *)
(* transforms in cmds.ls(transforms=True, long=True) order, each with its   *)
(* uuid and its shape children (node type and, for a USD proxy shape, the    *)
(* prim keys of its stage in Traverse() order).                              *)
Scene ==
    << [name |-> <<"|", "p", "e", "r", "s", "p">>, uuid |-> <<"c", "0">>,
        shapes |-> << [type |-> "camera", prims |-> << >>] >>],
       [name |-> <<"|", "n", "1">>, uuid |-> N1,
        shapes |-> << [type |-> "mesh", prims |-> << >>] >>],
       [name |-> <<"|", "n", "b">>, uuid |-> N2,
        shapes |-> << [type |-> "mesh", prims |-> << >>] >>],
       [name |-> <<"|", "p">>, uuid |-> <<"d", "3">>,
        shapes |-> << [type |-> "mayaUsdProxyShape", prims |-> << U1 >>] >>] >>

DefaultRoots ==
    { <<"|", "f", "r", "o", "n", "t">>, <<"|", "p", "e", "r", "s", "p">>,
      <<"|", "t", "o", "p">>, <<"|", "s", "i", "d", "e">> }

\* maya_utility.get_name_from_uuid: the long name cmds.ls gives for the uuid,
\* or nothing (the empty name stands for None)
get_name_from_uuid(uuid) ==
    LET hits == { i \in 1..Len(host_scene) : host_scene[i].uuid = uuid }
    IN  IF hits = {} THEN << >>
        ELSE host_scene[CHOOSE i \in hits : \A j \in hits : i <= j].name

\* str.isdigit of one character
isdigit(c) == c \in {"0", "1", "2", "3", "4", "5", "6", "7", "8", "9"}

RECURSIVE nodes_of_children(_, _)
\* the inner loop of get_all_nodes over the shape children of one transform
nodes_of_children(t, i) ==
    IF i > Len(t.shapes) THEN << >>
    ELSE (IF t.shapes[i].type = "mayaUsdProxyShape" THEN t.shapes[i].prims ELSE << t.uuid >>)
         \o nodes_of_children(t, i + 1)

RECURSIVE get_all_nodes_with_roots(_, _)
\* a faulty get_all_nodes without the test of the default roots: C18 must tell
\* it from the real one
get_all_nodes_with_roots(scene, i) ==
    IF i > Len(scene) THEN << >>
    ELSE nodes_of_children(scene[i], 1) \o get_all_nodes_with_roots(scene, i + 1)

RECURSIVE get_all_nodes_from(_, _)
\* maya_utility.get_all_nodes over the transforms scene[i..]
get_all_nodes_from(scene, i) ==
    IF i > Len(scene) THEN << >>
    ELSE (IF scene[i].name \notin DefaultRoots THEN nodes_of_children(scene[i], 1) ELSE << >>)
         \o get_all_nodes_from(scene, i + 1)

get_all_nodes == get_all_nodes_from(host_scene, 1)

\* The selections the user may have made in the host when the program reads it.
Selections == { << >>, << N1 >>, << U1 >> }

-----------------------------------------------------------------------------
(* The checks.  A check class is what the engine reads of it: its name, the *)
(* methods its class body defines, and the runner iterator each uses.       *)
\* ChecksUI.get_all_widgets order: sorted by (category, label)
AllChecks == << "default_shader", "trailing_number" >>

CheckNames == { AllChecks[i] : i \in 1..Len(AllChecks) }

\* cls.__dict__ of each check class: the methods it overrides, and the iterator each calls
ClassDict ==
    [ default_shader  |-> [run |-> "get_mesh_shape_iterator"],
      trailing_number |-> [run |-> "get_maya_nodes", usd_run |-> "get_usd_nodes"] ]

\* a faulty get_data_type with MAYA and USD exchanged: C10 must tell it from the real one
get_data_type_swapped(check) ==
    LET run_overridden == "run" \in DOMAIN ClassDict[check]
        usd_run_overridden == "usd_run" \in DOMAIN ClassDict[check]
    IN  IF run_overridden /\ usd_run_overridden THEN BOTH
        ELSE IF run_overridden THEN USD
        ELSE IF usd_run_overridden THEN MAYA
        ELSE None

\* ValidationCheckBase.get_data_type
get_data_type(check) ==
    LET run_overridden == "run" \in DOMAIN ClassDict[check]
        usd_run_overridden == "usd_run" \in DOMAIN ClassDict[check]
    IN  IF run_overridden /\ usd_run_overridden THEN BOTH
        ELSE IF run_overridden THEN MAYA
        ELSE IF usd_run_overridden THEN USD
        ELSE None

-----------------------------------------------------------------------------
(* The heap of {"maya": {}, "usd": {}} objects.  Runner.contexts, the local *)
(* variables maya_error_object / usd_error_object of a run() call and the   *)
(* published result_object refer to the same dictionaries, so the model     *)
(* keeps them by reference.                                                 *)
NCells == MaxDepth + 3

FreeCell == [free |-> TRUE]

EmptyCell == [maya |-> EmptyDict, usd |-> EmptyDict]

\* Runner.result_object = {}
NoResult == EmptyDict

\* nothing rendered yet
NoReport == << >>

HasResult(ro) == ro # NoResult

\* the cells some variable of the program still refers to
Refs(ctxs, ro, stk) ==
    { ctxs[c] : c \in DOMAIN ctxs }
        \cup (IF HasResult(ro) THEN {ro.maya_error_object, ro.usd_error_object} ELSE {})
        \cup { stk[i].cell : i \in 1..Len(stk) }

\* a fresh dictionary pair: the first cell nothing in `used` refers to
Alloc(used) == CHOOSE c \in (1..NCells) \ used : \A d \in (1..NCells) \ used : c <= d

\* the cells nothing refers to any more are given back
Collect(h, ctxs, ro, stk) ==
    [c \in 1..NCells |-> IF c \in Refs(ctxs, ro, stk) THEN h[c] ELSE FreeCell]

\* a result_object with its two dictionaries read through their references
Deref(h, ro) ==
    IF HasResult(ro)
    THEN [ro EXCEPT !.maya_error_object = h[ro.maya_error_object].maya,
                    !.usd_error_object = h[ro.usd_error_object].usd]
    ELSE ro

-----------------------------------------------------------------------------
(* The state of the program as one record, so that the code between two     *)
(* yield points can be written as a function from state to state.           *)
Now ==
    [ current_check |-> current_check,
      current_number_check |-> current_number_check,
      scheduled_checks_amount |-> scheduled_checks_amount,
      current_context |-> current_context,
      contexts |-> contexts,
      interrupt |-> interrupt,
      result_object |-> result_object,
      nodes |-> nodes,
      usd_nodes |-> usd_nodes,
      cached_data |-> cached_data,
      cached_from |-> cached_from,
      heap |-> heap,
      stack |-> stack,
      events |-> << >> ]

\* the state of the Runner after a handler that left it as M
CommitRunner(M) ==
    /\ current_check' = M.current_check
    /\ current_number_check' = M.current_number_check
    /\ scheduled_checks_amount' = M.scheduled_checks_amount
    /\ current_context' = M.current_context
    /\ contexts' = M.contexts
    /\ interrupt' = M.interrupt
    /\ result_object' = M.result_object
    /\ nodes' = M.nodes
    /\ usd_nodes' = M.usd_nodes
    /\ cached_data' = M.cached_data
    /\ cached_from' = IF M.cached_data = EmptyDict THEN None ELSE M.cached_from
    /\ heap' = Collect(M.heap, M.contexts, M.result_object, M.stack)
    /\ stack' = M.stack
    /\ events' = M.events

Commit(M) ==
    /\ CommitRunner(M)
    /\ UNCHANGED << host_scene, report >>

Log(M, e) == [M EXCEPT !.events = Append(@, e)]

\* An exception no one catches leaves run() at once: nothing after the raising
\* statement runs, and the slot that called run() returns to the event loop.
Abort(M, what) == Log(M, [sig |-> "raise", what |-> what])

-----------------------------------------------------------------------------
(* Runner.  A frame is one run() call: its arguments, its local variables   *)
(* and the position of the check and of the iterator it is in.              *)
(*   check_widgets, data_type   the arguments of run()                     *)
(*   cell        maya_error_object / usd_error_object (one reference each   *)
(*               into the same {"maya": {}, "usd": {}} object)              *)
(*   idx         the index of enumerate(check_widgets)                     *)
(*   method      the method of the check do_run is in: "run" or "usd_run"  *)
(*   items, pos  the list the running iterator enumerates and the position  *)
(*               of the entity it is about to yield                         *)
(*   maya_data, usd_data   the outputs the check has built so far          *)
(*   resolved    whether this call ran _setup_context                      *)
(*   stop_at     -1, or the number of checks of this call that had          *)
(*               completed when stop() first set the flag during it         *)
NewFrame(check_widgets, data_type, cell, resolved) ==
    [ check_widgets |-> check_widgets, data_type |-> data_type, cell |-> cell,
      idx |-> 0, method |-> "run", items |-> << >>, pos |-> 1,
      maya_data |-> EmptyDict, usd_data |-> EmptyDict,
      resolved |-> resolved, stop_at |-> -1 ]

CheckOf(fr) == fr.check_widgets[fr.idx + 1]

\* Runner.is_current_context_empty
is_current_context_empty(M) ==
    \/ M.current_context \notin DOMAIN M.contexts
    \/ M.heap[M.contexts[M.current_context]] = EmptyCell

RECURSIVE classify_by_comma(_, _, _)
\* a faulty loop that takes an identifier with a "," in it for an external one
\* and applies the filter to the native side only: C19 must tell it from the
\* real one
classify_by_comma(all_nodes, i, data_type) ==
    IF i > Len(all_nodes) THEN << << >>, << >> >>
    ELSE LET node == all_nodes[i]
             rest == classify_by_comma(all_nodes, i + 1, data_type)
         IN  IF \E k \in 1..Len(node) : node[k] = ","
             THEN << rest[1], << node >> \o rest[2] >>
             ELSE (IF data_type # USD THEN << << node >> \o rest[1], rest[2] >> ELSE rest)

RECURSIVE classify(_, _, _)
\* the loop of _setup_context: <<nodes, usd_nodes>> of all_nodes[i..]
classify(all_nodes, i, data_type) ==
    IF i > Len(all_nodes) THEN << << >>, << >> >>
    ELSE LET node == all_nodes[i]
             rest == classify(all_nodes, i + 1, data_type)
         IN  IF Head(node) = "|"
             THEN (IF data_type # MAYA THEN << rest[1], << node >> \o rest[2] >> ELSE rest)
             ELSE (IF data_type # USD THEN << << node >> \o rest[1], rest[2] >> ELSE rest)

\* a faulty _setup_context that never reads the selection: C20 must tell it
\* from the real one
_setup_context_whole_scene(M, data_type, selection) ==
    LET fresh == Alloc({M.contexts["selection"]}
                       \cup Refs(<< >>, M.result_object, M.stack))
        split == classify(get_all_nodes, 1, data_type)
    IN  [M EXCEPT !.current_context = "all",
                  !.contexts = [@ EXCEPT !["all"] = fresh],
                  !.heap = [@ EXCEPT ![fresh] = EmptyCell],
                  !.nodes = split[1],
                  !.usd_nodes = split[2]]

\* Runner._setup_context; selection is what cmds.ls(selection=True, ufe=True,
\* uuid=True) returns at this moment
_setup_context(M, data_type, selection) ==
    LET all_nodes == IF selection # << >> THEN selection ELSE get_all_nodes
        ctx == IF selection # << >> THEN "selection" ELSE "all"
        other == IF ctx = "all" THEN "selection" ELSE "all"
        fresh == Alloc({M.contexts[other]}
                       \cup Refs(<< >>, M.result_object, M.stack))
        split == classify(all_nodes, 1, data_type)
    IN  [M EXCEPT !.current_context = ctx,
                  !.contexts = [@ EXCEPT ![ctx] = fresh],
                  !.heap = [@ EXCEPT ![fresh] = EmptyCell],
                  !.nodes = split[1],
                  !.usd_nodes = split[2]]

\* a faulty _post_run that leaves the flag set: C5 must tell it from the real one
_post_run_keeps_flag(M) ==
    [M EXCEPT !.cached_data = EmptyDict, !.current_check = None]

\* Runner._post_run
_post_run(M) ==
    [M EXCEPT !.cached_data = EmptyDict, !.current_check = None, !.interrupt = FALSE]

\* Runner._error_run
_error_run(M, message) == Log(M, [sig |-> "error", error |-> message])

\* Runner._update_progressbars: self.current_check.label raises AttributeError
\* when current_check is None.  The event also records the position of the
\* check of the call that emits it (at, of), which the code does not send.
_update_progressbars(M, fr, nodes_total, current_node) ==
    IF M.current_check = None
    THEN [raised |-> TRUE, M |-> M]
    ELSE [raised |-> FALSE,
          M |-> Log(M, [sig |-> "progress",
                        label |-> M.current_check,
                        total_checks |-> M.scheduled_checks_amount,
                        current_check |-> M.current_number_check,
                        nodes_total |-> nodes_total,
                        current_node |-> current_node,
                        at |-> fr.idx + 1,
                        of |-> Len(fr.check_widgets)])]

\* Runner.get_mesh_shapes: maya_utility.get_name_from_uuid takes no `long`
\* argument, so the list comprehension raises TypeError at the first node.
\* A read of the cache is recorded with whether Runner.nodes is still the list
\* the cached value was computed from.
get_mesh_shapes(M) ==
    IF "mesh_shapes" \in DOMAIN M.cached_data
    THEN [raised |-> FALSE,
          M |-> Log(M, [sig |-> "cache_read", stale |-> M.nodes # M.cached_from]),
          value |-> M.cached_data["mesh_shapes"]]
    ELSE IF M.nodes # << >>
    THEN [raised |-> TRUE, M |-> M, value |-> << >>]
    ELSE [raised |-> FALSE,
          M |-> [M EXCEPT !.cached_data = Put(@, "mesh_shapes", << >>),
                          !.cached_from = M.nodes],
          value |-> << >>]

-----------------------------------------------------------------------------
(* Runner.run and the iterators, from one yield point to the next.          *)

\* the body of a check's loop for one yielded entity.  TrailingNumberCheck
\* appends the entity when its name (run) or its key (usd_run) ends in a
\* digit; DefaultShaderCheck.run is only ever handed an empty list of shapes.
body(check, method, out, node) ==
    IF check = "trailing_number" /\ method = "run"
    THEN LET node_name == get_name_from_uuid(node)
         IN  IF node_name # << >> /\ isdigit(Last(node_name)) THEN Append(out, node) ELSE out
    ELSE IF check = "trailing_number" /\ method = "usd_run"
    THEN IF isdigit(Last(node)) THEN Append(out, node) ELSE out
    ELSE out

\* run(), lines 85-89: where the outputs of the check are stored
store(cell, name, data_type, maya_result, usd_result) ==
    LET c1 == IF data_type # USD /\ get_data_type(name) # USD
              THEN [cell EXCEPT !.maya = Put(@, name, maya_result)] ELSE cell
    IN  IF data_type # MAYA /\ get_data_type(name) # MAYA
        THEN [c1 EXCEPT !.usd = Put(@, name, usd_result)] ELSE c1

\* run(), lines 91-103: the result is built and emitted, then _post_run.  The
\* event also records what the call knows and the result does not carry.
publish(M, fr) ==
    LET ro == [ maya_error_object |-> fr.cell,
                usd_error_object |-> fr.cell,
                maya_nodes |-> M.nodes,
                usd_nodes |-> M.usd_nodes,
                interrupted |-> M.interrupt,
                context |-> M.current_context,
                check_widgets |-> fr.check_widgets,
                checks_amount |-> M.scheduled_checks_amount ]
        M1 == [M EXCEPT !.result_object = ro]
    IN  _post_run(Log(M1, [sig |-> "result",
                           result |-> Deref(M1.heap, ro),
                           data_type |-> fr.data_type,
                           resolved |-> fr.resolved,
                           stop_at |-> fr.stop_at,
                           evaluated |-> fr.idx]))

RECURSIVE loop_top(_, _), start_method(_, _), end_method(_, _), iterate(_, _), finish_check(_, _)

\* run(), lines 74-81: the head of the loop over check_widgets
loop_top(M, fr) ==
    IF fr.idx >= Len(fr.check_widgets) \/ M.interrupt
    THEN publish(M, fr)
    ELSE LET M1 == [M EXCEPT !.current_check = CheckOf(fr),
                             !.current_number_check = fr.idx + 1]
         IN  start_method(Log(M1, [sig |-> "start", check |-> CheckOf(fr),
                                   after_stop |-> fr.stop_at # -1]),
                          [fr EXCEPT !.method = "run"])

\* ValidationCheckBase.do_run: check.run(runner), then check.usd_run(runner);
\* a method the class does not override is the base one, which returns [].
start_method(M, fr) ==
    IF fr.method \notin DOMAIN ClassDict[CheckOf(fr)]
    THEN end_method(M, fr)
    ELSE LET iterator == ClassDict[CheckOf(fr)][fr.method]
         IN  IF iterator = "get_maya_nodes"
             THEN iterate(M, [fr EXCEPT !.items = M.nodes, !.pos = 1])
             ELSE IF iterator = "get_usd_nodes"
             THEN iterate(M, [fr EXCEPT !.items = M.usd_nodes, !.pos = 1])
             ELSE \* get_mesh_shape_iterator
                  LET shapes == get_mesh_shapes(M)
                  IN  IF shapes.raised THEN Abort(M, "TypeError")
                      ELSE iterate(shapes.M, [fr EXCEPT !.items = shapes.value, !.pos = 1])

\* the method of the check returns its output
end_method(M, fr) ==
    IF fr.method = "run"
    THEN start_method(M, [fr EXCEPT !.method = "usd_run", !.items = << >>, !.pos = 1])
    ELSE finish_check(M, fr)

\* get_maya_nodes, get_usd_nodes, get_mesh_shape_iterator: the head of the loop, up
\* to processEvents(), where the call is suspended
iterate(M, fr) ==
    IF fr.pos > Len(fr.items)
    THEN end_method(M, fr)
    ELSE LET p == _update_progressbars(M, fr, Len(fr.items), fr.pos)
         IN  IF p.raised THEN Abort(M, "AttributeError")
             ELSE [p.M EXCEPT !.stack = Append(@, fr)]

\* run(), lines 82-89: after do_run
finish_check(M, fr) ==
    LET p == _update_progressbars(M, fr, 1, 1)
        had_error == fr.maya_data # EmptyDict \/ fr.usd_data # EmptyDict
        M1 == Log(p.M, [sig |-> "update_ui", check |-> CheckOf(fr), had_error |-> had_error])
        M2 == [M1 EXCEPT !.heap[fr.cell] =
                   store(@, CheckOf(fr), fr.data_type, fr.maya_data, fr.usd_data)]
    IN  IF p.raised THEN Abort(M, "AttributeError")
        ELSE loop_top(M2, [fr EXCEPT !.idx = @ + 1, !.method = "run", !.items = << >>,
                                     !.pos = 1, !.maya_data = EmptyDict,
                                     !.usd_data = EmptyDict])

\* the iterators after processEvents() has returned: break on the flag, else
\* yield the entity to the check and go round the loop
resume(M, fr) ==
    IF M.interrupt
    THEN end_method(M, fr)
    ELSE LET node == fr.items[fr.pos]
             M1 == Log(M, [sig |-> "yield", node |-> node, check |-> CheckOf(fr),
                           after_stop |-> fr.stop_at # -1, data_type |-> fr.data_type])
         IN  iterate(M1, IF fr.method = "run"
                         THEN [fr EXCEPT !.maya_data = body(CheckOf(fr), "run", @, node), !.pos = @ + 1]
                         ELSE [fr EXCEPT !.usd_data = body(CheckOf(fr), "usd_run", @, node), !.pos = @ + 1])

\* run(), line 60
no_nodes(M) == M.nodes = << >> /\ M.usd_nodes = << >>

\* a faulty run() without the test of line 64: C1 must tell it from the real one
no_checks_never(check_widgets) == FALSE

\* run(), line 64
no_checks(check_widgets) == check_widgets = << >>

\* Runner.run, from the call to its first yield point (or to its return).  The
\* first event records the flag and the cache the call finds.
run(M, check_widgets, data_type, refresh_context, selection) ==
    LET resolve == refresh_context \/ is_current_context_empty(M)
        M0 == Log(M, [sig |-> "call", check_widgets |-> check_widgets,
                      interrupt |-> M.interrupt, cached_data |-> M.cached_data,
                      depth |-> Len(M.stack), resolve |-> resolve])
        M1 == IF resolve THEN _setup_context(M0, data_type, selection) ELSE M0
    IN  IF no_nodes(M1) THEN _error_run(M1, "No Nodes to tests")
        ELSE IF no_checks(check_widgets) THEN _error_run(M1, "No Checks enabled")
        ELSE loop_top([M1 EXCEPT !.scheduled_checks_amount = Len(check_widgets)],
                      NewFrame(check_widgets, data_type,
                               M1.contexts[M1.current_context], resolve))

\* Runner.stop.  Every suspended call that has not been stopped yet notes how
\* many of its checks had completed.
stop(M) ==
    LET note(fr) == IF fr.stop_at = -1 THEN [fr EXCEPT !.stop_at = fr.idx] ELSE fr
    IN  IF M.current_check # None
        THEN [M EXCEPT !.interrupt = TRUE,
                       !.stack = [i \in DOMAIN M.stack |-> note(M.stack[i])]]
        ELSE M

\* a faulty reset_contexts that leaves Runner.contexts as it is: C15 must tell
\* it from the real one
reset_contexts_keeps_contexts(M) ==
    [M EXCEPT !.nodes = << >>,
              !.usd_nodes = << >>,
              !.current_context = "all",
              !.cached_data = EmptyDict,
              !.result_object = NoResult]

\* Runner.reset_contexts
reset_contexts(M) ==
    LET held == Refs(<< >>, NoResult, M.stack)
        a == Alloc(held)
        s == Alloc(held \cup {a})
    IN  [M EXCEPT !.nodes = << >>,
                  !.usd_nodes = << >>,
                  !.contexts = [all |-> a, selection |-> s],
                  !.heap = [@ EXCEPT ![a] = EmptyCell, ![s] = EmptyCell],
                  !.current_context = "all",
                  !.cached_data = EmptyDict,
                  !.result_object = NoResult]

-----------------------------------------------------------------------------
(* The program: the Runner as UI.__init__ constructs it, and the handlers   *)
(* the event loop of the host calls, when the program is idle and inside    *)
(* every processEvents() of a running check.                                *)
InitRunner ==
    /\ current_check = None
    /\ current_number_check = 0
    /\ scheduled_checks_amount = 0
    /\ current_context = "all"
    /\ contexts = [all |-> 1, selection |-> 2]
    /\ interrupt = FALSE
    /\ result_object = NoResult
    /\ nodes = << >>
    /\ usd_nodes = << >>
    /\ cached_data = EmptyDict
    /\ cached_from = None
    /\ heap = [c \in 1..NCells |-> IF c <= 2 THEN EmptyCell ELSE FreeCell]
    /\ stack = << >>
    /\ calls = 0
    /\ events = << >>

Init ==
    /\ InitRunner
    /\ host_scene = Scene
    /\ report = NoReport

\* the checked and enabled widgets, in get_all_widgets order
ActiveWidgets(active) == SelectSeq(AllChecks, LAMBDA c : c \in active)

\* UI.run_all: the "Run Checks on Selected / All" button
RunAll ==
    \E active \in SUBSET CheckNames, data_type \in DataType, selection \in Selections :
        /\ calls < MaxCalls
        /\ Len(stack) < MaxDepth
        /\ calls' = calls + 1
        /\ Commit(run(Now, ActiveWidgets(active), data_type, TRUE, selection))

\* UI.handle_run: the Run button of one check
HandleRun ==
    \E check \in CheckNames, data_type \in DataType, selection \in Selections :
        /\ calls < MaxCalls
        /\ Len(stack) < MaxDepth
        /\ calls' = calls + 1
        /\ Commit(run(Now, << check >>, data_type, FALSE, selection))

\* UI.keyPressEvent with the Escape key
Stop ==
    /\ Commit(stop(Now))
    /\ UNCHANGED calls

\* UI.clear: the Clear button
Clear ==
    /\ Commit(reset_contexts(Now))
    /\ UNCHANGED calls

\* processEvents() returns to the iterator of the innermost suspended run()
ProcessEventsReturn ==
    /\ stack # << >>
    /\ Commit(resume([Now EXCEPT !.stack = Front(@)], Last(stack)))
    /\ UNCHANGED calls

Next ==
    \/ RunAll
    \/ HandleRun
    \/ Stop
    \/ Clear
    \/ ProcessEventsReturn

Spec == Init /\ [][Next]_vars

\* The same program with one more click: the buttons answer MaxCallsDeep times.
RunAllDeep ==
    \E active \in SUBSET CheckNames, data_type \in DataType, selection \in Selections :
        /\ calls < MaxCallsDeep
        /\ Len(stack) < MaxDepth
        /\ calls' = calls + 1
        /\ Commit(run(Now, ActiveWidgets(active), data_type, TRUE, selection))

HandleRunDeep ==
    \E check \in CheckNames, data_type \in DataType, selection \in Selections :
        /\ calls < MaxCallsDeep
        /\ Len(stack) < MaxDepth
        /\ calls' = calls + 1
        /\ Commit(run(Now, << check >>, data_type, FALSE, selection))

NextDeep ==
    \/ RunAllDeep
    \/ HandleRunDeep
    \/ Stop
    \/ Clear
    \/ ProcessEventsReturn

SpecDeep == Init /\ [][NextDeep]_vars

-----------------------------------------------------------------------------
(* Stored check results, and what the engine and the checks' renderers make *)
(* of them.  A flat result (a Python list) is a sequence of entities; a     *)
(* mapped result (a defaultdict(list)) is the sequence of its items, in     *)
(* insertion order: [node, components].  Rendered HTML is kept as the       *)
(* sequence of its lines, each with the values formatted into it.           *)

NODE == "NODE"

\* constants.COMPONENT_MAPPING; a format string is kept as its pieces, "{}"
\* being the replacement field
COMPONENT_MAPPING ==
    [ UV     |-> << ".map[", "{}", "]" >>,
      VERTEX |-> << ".vtx[", "{}", "]" >>,
      EDGE   |-> << ".e[", "{}", "]" >>,
      FACE   |-> << ".f[", "{}", "]" >> ]

\* str(n) of a component index (indices below ten are one digit)
str(n) == << "0", "1", "2", "3", "4", "5", "6", "7", "8", "9" >>[n + 1]

\* str.format with one argument: every replacement field becomes str(x)
format(fmt, x) == [ k \in 1..Len(fmt) |-> IF fmt[k] = "{}" THEN str(x) ELSE fmt[k] ]

\* the check descriptors the renderers read: name, label, node_type
Descriptors ==
    { [name |-> "trailing_number", label |-> "Trailing Number", node_type |-> NODE],
      [name |-> "triangle", label |-> "Triangles", node_type |-> "FACE"],
      [name |-> "poles", label |-> "Poles", node_type |-> "VERTEX"],
      [name |-> "hard_edges", label |-> "Hard Edges", node_type |-> "EDGE"],
      [name |-> "uv_range", label |-> "UV Range", node_type |-> "UV"] }

\* Python truth of a list or a dict: it has an element or a key
truthy(x) == Len(x) > 0

\* dict.get(key): the value, or None
get(d, k) == IF k \in DOMAIN d THEN d[k] ELSE None

\* `not context` for a value that may be None
falsy(context) == context = None \/ ~truthy(context)

\* run(), line 83: bool(maya_result or usd_result)
had_error(maya_result, usd_result) ==
    truthy(IF truthy(maya_result) THEN maya_result ELSE usd_result)

\* "issue" if n == 1 else "issues"
word(n) == IF n = 1 THEN "issue" ELSE "issues"

SUCCESS(check) == [line |-> "check", label |-> check.label, verdict |-> "SUCCESS"]

FAILED(check) == [line |-> "check", label |-> check.label, verdict |-> "FAILED"]

FAILED_n(check, n) ==
    [line |-> "check", label |-> check.label, verdict |-> "FAILED", count |-> n, word |-> word(n)]

RECURSIVE render_components(_, _, _)
\* render_maya_data_html, verbosity 2: the lines of the items context[i..]
render_components(check, context, i) ==
    IF i > Len(context) THEN << >>
    ELSE LET node_name == get_name_from_uuid(context[i].node)
             components == context[i].components
         IN  << [line |-> "node", name |-> node_name] >>
             \o [ j \in 1..Len(components) |->
                    [line |-> "component",
                     name |-> node_name \o format(COMPONENT_MAPPING[check.node_type],
                                                  components[j])] ]
             \o render_components(check, context, i + 1)

\* a faulty renderer without the branch of line 73, which shows an empty result
\* as a failure with no issues: C23 must tell it from the real one
render_maya_data_html_failed(check, context, verbosity_level) ==
    IF verbosity_level = 0 THEN << FAILED_n(check, Len(context)) >>
    ELSE << FAILED(check) >>

\* ValidationCheckBase.render_maya_data_html
render_maya_data_html(check, context, verbosity_level) ==
    IF ~truthy(context) THEN << SUCCESS(check) >>
    ELSE IF verbosity_level = 0 THEN << FAILED_n(check, Len(context)) >>
    ELSE IF check.node_type = NODE
    THEN << FAILED(check) >>
         \o [ i \in 1..Len(context) |-> [line |-> "node", name |-> get_name_from_uuid(context[i])] ]
    ELSE IF verbosity_level = 1
    THEN << FAILED(check) >>
         \o [ i \in 1..Len(context) |->
                [line |-> "node", name |-> get_name_from_uuid(context[i].node),
                 count |-> Len(context[i].components),
                 word |-> word(Len(context[i].components))] ]
    ELSE << FAILED(check) >> \o render_components(check, context, 1)

\* ValidationCheckBase.render_usd_data_html
render_usd_data_html(check, context, verbosity_level) ==
    IF ~truthy(context) THEN << SUCCESS(check) >>
    ELSE IF verbosity_level = 0 THEN << FAILED_n(check, Len(context)) >>
    ELSE << FAILED(check) >> \o [ i \in 1..Len(context) |-> [line |-> "node", name |-> context[i]] ]

\* ValidationCheckBase.format_usd_data
format_usd_data(context) ==
    IF falsy(context) THEN << >>
    ELSE [ i \in 1..Len(context) |-> context[i] ]

RECURSIVE format_components(_, _, _)
\* format_maya_data, the loop over context.items() from item i on
format_components(check, context, i) ==
    IF i > Len(context) THEN << >>
    ELSE [ j \in 1..Len(context[i].components) |->
             get_name_from_uuid(context[i].node)
                 \o format(COMPONENT_MAPPING[check.node_type], context[i].components[j]) ]
         \o format_components(check, context, i + 1)

\* ValidationCheckBase.format_maya_data: the names handed to cmds.select
format_maya_data(check, context) ==
    IF falsy(context) THEN << >>
    ELSE IF check.node_type = NODE
    THEN [ i \in 1..Len(context) |-> get_name_from_uuid(context[i]) ]
    ELSE format_components(check, context, 1)

\* ValidationCheckBase.do_select_error_nodes: the argument of cmds.select
do_select_error_nodes(check, maya_data, usd_data) ==
    format_maya_data(check, get(maya_data, check.name))
        \o format_usd_data(get(usd_data, check.name))

-----------------------------------------------------------------------------
(* The renderers over every stored result of a small shape: one check, its  *)
(* entry in maya_error_object and in usd_error_object (or none), and the    *)
(* operation applied to them last.                                          *)

RECURSIVE ascending(_)
\* the indices of S in the order a mesh iterator visits them
ascending(S) ==
    IF S = {} THEN << >>
    ELSE LET m == CHOOSE x \in S : \A y \in S : x <= y
         IN  << m >> \o ascending(S \ {m})

\* the component lists of one entity in a mapped result
IndexLists == { ascending(S) : S \in SUBSET (1..MaxIndex) }

\* results of a check of node_type NODE over the native entities N1, N2
FlatResults ==
    { << >> } \cup { << a >> : a \in {N1, N2} }
              \cup { << a, b >> : a \in {N1}, b \in {N2} }
              \cup { << a, b >> : a \in {N2}, b \in {N1} }

Items == [node : {N1, N2}, components : IndexLists]

\* results of a component check: a dict entity -> component list
MappedResults ==
    { << >> } \cup { << x >> : x \in Items }
              \cup { << x, y >> : x \in { z \in Items : z.node = N1 },
                                  y \in { z \in Items : z.node = N2 } }

\* results of usd_run over the external entity U1
UsdResults == { << >>, << U1 >> }

MayaResultsOf(check) == IF check.node_type = NODE THEN FlatResults ELSE MappedResults

\* an error object with no entry for the check, or with one
ErrorObjects(check, results) ==
    { EmptyDict } \cup { Put(EmptyDict, check.name, r) : r \in results }

Stored(check, maya_error_object, usd_error_object) ==
    [ check |-> check,
      maya_error_object |-> maya_error_object,
      usd_error_object |-> usd_error_object,
      op |-> "stored",
      verbosity_level |-> 0,
      out |-> << >> ]

InitReport ==
    /\ InitRunner
    /\ host_scene = Scene
    /\ \E check \in Descriptors :
         \E m \in ErrorObjects(check, MayaResultsOf(check)), u \in ErrorObjects(check, UsdResults) :
            report = Stored(check, m, u)

\* what do_run returned for a domain: the stored value, [] where the base
\* method ran or nothing was stored
returned(error_object, name) == IF name \in DOMAIN error_object THEN error_object[name] ELSE << >>

runner_vars ==
    << current_check, current_number_check, scheduled_checks_amount, current_context,
       contexts, interrupt, result_object, nodes, usd_nodes, cached_data, cached_from,
       heap, stack, calls, events, host_scene >>

\* the report once an operation has been applied to the stored results
Applied(op, verbosity_level, out) ==
    [report EXCEPT !.op = op, !.verbosity_level = verbosity_level, !.out = out]

\* run(), lines 83-84: the verdict handed to check_widget.update_ui
UpdateUi ==
    /\ report' = Applied("update_ui", report.verbosity_level,
                          << [had_error |->
                                had_error(returned(report.maya_error_object, report.check.name),
                                          returned(report.usd_error_object, report.check.name))] >>)
    /\ UNCHANGED runner_vars

\* ReportUI.render_report, lines 58-61, for the check
RenderMaya ==
    \E verbosity_level \in 0..2 :
        /\ report.check.name \in DOMAIN report.maya_error_object
        /\ report' = Applied("render_maya", verbosity_level,
                              render_maya_data_html(report.check,
                                                    report.maya_error_object[report.check.name],
                                                    verbosity_level))
        /\ UNCHANGED runner_vars

\* ReportUI.render_report, lines 66-69, for the check
RenderUsd ==
    \E verbosity_level \in 0..2 :
        /\ report.check.name \in DOMAIN report.usd_error_object
        /\ report' = Applied("render_usd", verbosity_level,
                              render_usd_data_html(report.check,
                                                   report.usd_error_object[report.check.name],
                                                   verbosity_level))
        /\ UNCHANGED runner_vars

\* the list cmds.select is called with, one entry per name
selected(names) == [ i \in 1..Len(names) |-> [line |-> "selected", name |-> names[i]] ]

\* UI.handle_error_selected
SelectErrorNodes ==
    /\ report' = Applied("select", report.verbosity_level,
                          selected(do_select_error_nodes(report.check, report.maya_error_object,
                                                         report.usd_error_object)))
    /\ UNCHANGED runner_vars

NextReport ==
    \/ UpdateUi
    \/ RenderMaya
    \/ RenderUsd
    \/ SelectErrorNodes

SpecReport == InitReport /\ [][NextReport]_vars

-----------------------------------------------------------------------------
(* Properties.  `events` is what the last action did, in order; a run()     *)
(* call starts with a "call" event, and a "result" event is the             *)
(* result_signal with the RunResult it carried.                             *)

\* the last action was a call of run(), and this is what it found
Called == events # << >> /\ events[1].sig = "call"

EventsOf(sig) == { i \in 1..Len(events) : events[i].sig = sig }

\* the names a published RunResult has an entry for
Entries(result) == (DOMAIN result.maya_error_object) \cup (DOMAIN result.usd_error_object)

FirstChecks(check_widgets, k) == { check_widgets[i] : i \in 1..k }

SupportsNative(check) == "run" \in DOMAIN ClassDict[check]

SupportsExternal(check) == "usd_run" \in DOMAIN ClassDict[check]

\* run() lines 85-89 store a result of the check under this filter
Storable(check, data_type) ==
    \/ data_type # USD /\ SupportsNative(check)
    \/ data_type # MAYA /\ SupportsExternal(check)

\* C1: run() with an empty check list, or with a working context that has
\* neither native nor external entities, emits exactly one setup error and
\* nothing else: no check is started, no progress event, no RunResult.
C1_SetupErrorOnly ==
    (Called /\ (events[1].check_widgets = << >> \/ (nodes = << >> /\ usd_nodes = << >>)))
        => /\ Len(events) = 2
           /\ events[2].sig = "error"
           /\ stack = SubSeq(stack, 1, events[1].depth)

\* C1, its case: run() was called with no check enabled over a context that
\* has entities, and answered "No Checks enabled".
C1_Witness ==
    /\ Called
    /\ events[1].check_widgets = << >>
    /\ nodes # << >>
    /\ Len(events) = 2
    /\ events[2] = [sig |-> "error", error |-> "No Checks enabled"]

\* C2: when stop() is requested after the k-th of n checks has completed
\* (0 < k < n), the published RunResult is interrupted and has entries for
\* exactly those of the k checks completed before the request that the filter
\* stores; the check in progress at the request contributes no entry.
C2_StopKeepsCompletedOnly ==
    \A i \in EventsOf("result") :
        LET e == events[i]
            completed == FirstChecks(e.result.check_widgets, e.stop_at)
        IN  (0 < e.stop_at /\ e.stop_at < Len(e.result.check_widgets))
                => /\ e.result.interrupted
                   /\ Entries(e.result) = { c \in completed : Storable(c, e.data_type) }

\* C3: once stop() has set the flag during a run, no iterator yields a further
\* entity to a check of that run and no further check of that run is started.
C3_NothingAfterStop ==
    \A i \in EventsOf("yield") \cup EventsOf("start") : ~events[i].after_stop

\* C4: run() is never entered while another run() of the same Runner is
\* suspended in processEvents().
C4_NoReentry ==
    \A i \in EventsOf("call") : events[i].depth = 0

\* C5: when run() has published a RunResult it returns with the flag false, no
\* check current, the cache empty, and get_result_object() is the RunResult
\* that was published.
C5_IdleAfterPublish ==
    \A i \in EventsOf("result") :
        /\ i = Len(events)
        /\ interrupt = FALSE
        /\ current_check = None
        /\ cached_data = EmptyDict
        /\ Deref(heap, result_object) = events[i].result

\* C5, its case: a run of two checks that stop() interrupted during the second
\* has published its RunResult.
C5_Witness ==
    \E i \in EventsOf("result") :
        /\ events[i].result.interrupted
        /\ events[i].stop_at = 1
        /\ Len(events[i].result.check_widgets) = 2

\* C6: a published RunResult is interrupted exactly when stop() set the flag
\* during the run that published it.
C6_InterruptedIffStopped ==
    \A i \in EventsOf("result") :
        events[i].result.interrupted <=> (events[i].stop_at # -1)

\* C7: no run() starts with the cancellation flag already set.
C7_RunStartsUnflagged ==
    \A i \in EventsOf("call") : ~events[i].interrupt

\* C8: every progress event emitted while the i-th check of a run is current
\* carries current_check = i and total_checks = the length of the list of that
\* run, so current_check is within 1..total_checks.
C8_ProgressNamesCheck ==
    \A i \in EventsOf("progress") :
        /\ events[i].current_check = events[i].at
        /\ events[i].total_checks = events[i].of
        /\ events[i].current_check \in 1..events[i].total_checks

\* C9: the cache is empty when a run starts and when it has published, and a
\* cached value is never read once Runner.nodes is another list than the one
\* it was computed from.
C9_CachePerContext ==
    /\ \A i \in EventsOf("call") : events[i].cached_data = EmptyDict
    /\ \A i \in EventsOf("result") : cached_data = EmptyDict
    /\ \A i \in EventsOf("cache_read") : ~events[i].stale

\* C10: in the RunResult of an uninterrupted run that resolved its context, a
\* check is a key of the native map iff it was run, the filter admits Native
\* and the check overrides run; and a key of the external map iff it was run,
\* the filter admits External and the check overrides usd_run.
C10_KeysByDomain ==
    \A i \in EventsOf("result") :
        LET e == events[i]
            ran == FirstChecks(e.result.check_widgets, Len(e.result.check_widgets))
        IN  (e.resolved /\ ~e.result.interrupted)
                => \A c \in CheckNames :
                       /\ c \in DOMAIN e.result.maya_error_object
                            <=> (c \in ran /\ e.data_type # USD /\ SupportsNative(c))
                       /\ c \in DOMAIN e.result.usd_error_object
                            <=> (c \in ran /\ e.data_type # MAYA /\ SupportsExternal(c))

\* C10, its case: both checks ran over external entities with the filter Both;
\* the native-only check is in the native map alone.
C10_Witness ==
    \E i \in EventsOf("result") :
        /\ events[i].resolved
        /\ ~events[i].result.interrupted
        /\ events[i].data_type = BOTH
        /\ DOMAIN events[i].result.maya_error_object = {"default_shader", "trailing_number"}
        /\ DOMAIN events[i].result.usd_error_object = {"trailing_number"}
        /\ events[i].result.usd_error_object["trailing_number"] = << U1 >>

-----------------------------------------------------------------------------
(* Properties of the stored results and their renderings (SpecReport).      *)

RECURSIVE sum_components(_, _)
sum_components(context, i) ==
    IF i > Len(context) THEN 0
    ELSE Len(context[i].components) + sum_components(context, i + 1)

\* countIssues: the list length of a flat result, the sum of the component
\* list lengths of a mapped one
countIssues(check, context) ==
    IF check.node_type = NODE THEN Len(context) ELSE sum_components(context, 1)

\* the native and the external result the report is about
MayaResult == returned(report.maya_error_object, report.check.name)

UsdResult == returned(report.usd_error_object, report.check.name)

C12_OverviewCountsIssues ==
    (report.op = "render_maya" /\ report.verbosity_level = 0
        /\ report.out[1].verdict = "FAILED")
        => report.out[1].count = countIssues(report.check, MayaResult)

RECURSIVE entities_once(_, _, _)
\* the entities of a result, each once, in stored order
entities_once(check, context, i) ==
    IF i > Len(context) THEN << >>
    ELSE LET e == IF check.node_type = NODE THEN context[i] ELSE context[i].node
             rest == entities_once(check, context, i + 1)
         IN  IF check.node_type # NODE /\ context[i].components = << >> THEN rest
             ELSE << e >> \o rest

\* C13: selecting the failing entities of a check reads the stored result and
\* names each failing entity exactly once, however many of its components
\* failed; with no stored result it names nothing.
C13_SelectsEachEntityOnce ==
    report.op = "select"
        => report.out =
             selected([ i \in 1..Len(entities_once(report.check, MayaResult, 1)) |->
                          get_name_from_uuid(entities_once(report.check, MayaResult, 1)[i]) ]
                      \o UsdResult)

\* the index syntax of each component granularity
IndexSyntax == [ VERTEX |-> ".vtx[", EDGE |-> ".e[", FACE |-> ".f[", UV |-> ".map[" ]

\* the items of a mapped result whose entity has a failing component
failing_items(context) == SelectSeq(context, LAMBDA x : x.components # << >>)

RECURSIVE verbose_lines(_, _, _)
\* one line for the entity of each of items[i..], then one line per component
verbose_lines(check, items, i) ==
    IF i > Len(items) THEN << >>
    ELSE LET entityName == get_name_from_uuid(items[i].node)
         IN  << [line |-> "node", name |-> entityName] >>
             \o [ j \in 1..Len(items[i].components) |->
                    [line |-> "component",
                     name |-> entityName \o << IndexSyntax[check.node_type],
                                               str(items[i].components[j]), "]" >>] ]
             \o verbose_lines(check, items, i + 1)

-----------------------------------------------------------------------------
(* Runner._setup_context over every scene of a small shape and every        *)
(* selection the user may have made in it.                                  *)

G1 == <<"e", "4">>

M2 == <<"f", "5">>

\* the transforms a scene may hold, in outliner order: those of Scene, a group
\* without shape children and a transform with two mesh shapes under it
Outliner ==
    Scene \o
    << [name |-> <<"|", "g">>, uuid |-> G1, shapes |-> << >>],
       [name |-> <<"|", "m">>, uuid |-> M2,
        shapes |-> << [type |-> "mesh", prims |-> << >>],
                      [type |-> "mesh", prims |-> << >>] >>] >>

Scenes ==
    { [k \in 1..Cardinality(S) |-> Outliner[ascending(S)[k]]] : S \in SUBSET (1..Len(Outliner)) }

RECURSIVE prims_of(_, _)
\* the prim keys of the proxy shapes under the transform t, from shape i on
prims_of(t, i) ==
    IF i > Len(t.shapes) THEN << >>
    ELSE (IF t.shapes[i].type = "mayaUsdProxyShape" THEN t.shapes[i].prims ELSE << >>)
         \o prims_of(t, i + 1)

Range(s) == { s[i] : i \in 1..Len(s) }

\* what the user can select in a scene: its transforms (listed by uuid) and
\* the prims of its stages (listed by key)
Selectable(scene) ==
    { scene[i].uuid : i \in 1..Len(scene) }
        \cup UNION { Range(prims_of(scene[i], 1)) : i \in 1..Len(scene) }

\* cmds.ls(selection=True, ufe=True, uuid=True): each selected entity once
SelectionsOf(scene) ==
    { sel \in UNION { [1..n -> Selectable(scene)] : n \in 0..MaxSel } :
        \A i, j \in 1..Len(sel) : i # j => sel[i] # sel[j] }

InitResolve ==
    /\ InitRunner
    /\ host_scene \in Scenes
    /\ report = NoReport

\* run(), lines 57-58, with the filter of the settings and the selection of
\* the host at that moment
Resolve ==
    \E data_type \in DataType, selection \in SelectionsOf(host_scene) :
        /\ Commit(_setup_context(Log(Now, [sig |-> "resolve", data_type |-> data_type,
                                           selection |-> selection]),
                                  data_type, selection))
        /\ UNCHANGED calls

NextResolve == Resolve

SpecResolve == InitResolve /\ [][NextResolve]_vars

-----------------------------------------------------------------------------
(* Properties of Spec: what a run leaves of earlier results.                *)

\* the dictionaries a published result refers to
ResultCells(ro) == IF HasResult(ro) THEN {ro.maya_error_object, ro.usd_error_object} ELSE {}

\* the step is taken by a run() call that ran _setup_context: the call itself,
\* or the return of processEvents() into it
ResolvedRunStep ==
    IF calls' # calls THEN events'[1].resolve
    ELSE events' # << >> /\ Last(stack).resolved

\* C14: a run that resolves the context publishes entries only for the checks
\* it evaluated, and no step of such a run changes the dictionaries of the
\* result published before it; only a run that did not resolve writes into them.
C14_ResolvedRunEntries ==
    \A i \in EventsOf("result") :
        events[i].resolved
            => Entries(events[i].result)
                   \subseteq FirstChecks(events[i].result.check_widgets, events[i].evaluated)

C14_FreshMaps ==
    /\ [](C14_ResolvedRunEntries)
    /\ [][ ResolvedRunStep =>
              \A c \in ResultCells(result_object) : heap'[c] = heap[c] \/ heap'[c] = FreeCell ]_vars

\* the state reset_contexts leaves: nothing resolved, cached or published, the
\* scope "all", and an empty pair of dictionaries for either scope
ResetState ==
    /\ nodes = << >>
    /\ usd_nodes = << >>
    /\ cached_data = EmptyDict
    /\ result_object = NoResult
    /\ current_context = "all"
    /\ DOMAIN contexts = {"all", "selection"}
    /\ \A c \in DOMAIN contexts : heap[contexts[c]] = EmptyCell

\* the dictionaries of the current scope are empty and no suspended run()
\* call can write into them: the next run() call finds the context empty
Unresolved ==
    /\ current_context \in DOMAIN contexts
    /\ heap[contexts[current_context]] = EmptyCell
    /\ \A i \in 1..Len(stack) : stack[i].cell # contexts[current_context]

\* C15: reset_contexts empties the results of both scopes, the resolved
\* entities, the cache and the published result and sets the scope to "all";
\* nothing but a run() call ends that, and the run() call that follows
\* resolves the context whatever its refresh_context argument is.
C15_ResetThenResolve ==
    [][ /\ Clear => (ResetState /\ Unresolved)'
        /\ (Unresolved /\ calls' = calls) => Unresolved'
        /\ (Unresolved /\ calls' # calls) => events'[1].resolve ]_vars

\* reset_contexts has acted inside a run() call that had stored a result: the
\* call still holds its dictionaries, the Runner holds nothing
C15_Witness ==
    /\ ResetState
    /\ Unresolved
    /\ stack # << >>
    /\ heap[Last(stack).cell] # EmptyCell

-----------------------------------------------------------------------------
(* Properties of SpecResolve: the working context _setup_context resolves.  *)

\* _setup_context has just run; its arguments are in the event
Resolved == events # << >> /\ events[1].sig = "resolve"

NoDuplicates(s) == \A i, j \in 1..Len(s) : i # j => s[i] # s[j]

\* the transforms of the scene that are not default roots
Addressable == { i \in 1..Len(host_scene) : host_scene[i].name \notin DefaultRoots }

HasProxy(t) == \E k \in 1..Len(t.shapes) : t.shapes[k].type = "mayaUsdProxyShape"

\* node[0] == '|'
IsExternal(node) == Head(node) = "|"

IsNative(node) == ~IsExternal(node)

\* all_nodes of _setup_context for the selection of the event
Candidates == IF events[1].selection # << >> THEN events[1].selection ELSE get_all_nodes

\* C16: in every resolved context no identifier occurs twice in nodes or in
\* usd_nodes, and none occurs in both.
C16_DeduplicatedDisjoint ==
    Resolved =>
        /\ NoDuplicates(nodes)
        /\ NoDuplicates(usd_nodes)
        /\ Range(nodes) \cap Range(usd_nodes) = {}

\* C17: resolved for the whole scene, the context holds every transform that
\* is not a default root: its uuid in nodes, or the prims of its stage in
\* usd_nodes when it carries a proxy shape (on the side the filter keeps).
C17_EveryTransformEnumerated ==
    (Resolved /\ events[1].selection = << >>) =>
        \A i \in Addressable :
            IF HasProxy(host_scene[i])
            THEN events[1].data_type # MAYA
                     => Range(prims_of(host_scene[i], 1)) \subseteq Range(usd_nodes)
            ELSE events[1].data_type # USD => host_scene[i].uuid \in Range(nodes)

\* C18: resolved for the whole scene, nodes holds no default root.
C18_NoDefaultRoots ==
    (Resolved /\ events[1].selection = << >>) =>
        \A i \in 1..Len(nodes) : get_name_from_uuid(nodes[i]) \notin DefaultRoots

\* the whole scene is resolved with the native side kept, in a scene that has
\* a default root and other transforms
C18_Witness ==
    /\ Resolved
    /\ events[1].selection = << >>
    /\ events[1].data_type # USD
    /\ \E i \in 1..Len(host_scene) : host_scene[i].name \in DefaultRoots
    /\ nodes # << >>

\* C19: usd_nodes holds the candidates that begin with "|" and nodes the
\* others, each in candidate order, unless the filter prunes that side: MAYA
\* leaves usd_nodes empty, USD leaves nodes empty, BOTH keeps every candidate
\* in exactly one of the two.
C19_ClassifiedByPrefix ==
    Resolved =>
        /\ nodes = IF events[1].data_type # USD
                   THEN SelectSeq(Candidates, IsNative) ELSE << >>
        /\ usd_nodes = IF events[1].data_type # MAYA
                       THEN SelectSeq(Candidates, IsExternal) ELSE << >>
        /\ events[1].data_type = BOTH
               => \A k \in 1..Len(Candidates) :
                     (Candidates[k] \in Range(nodes)) # (Candidates[k] \in Range(usd_nodes))

\* a selection with a native and an external entity is resolved with BOTH
C19_Witness ==
    /\ Resolved
    /\ events[1].data_type = BOTH
    /\ Len(events[1].selection) = 2
    /\ nodes # << >>
    /\ usd_nodes # << >>

\* C20: with an empty selection the scope is "all" and the sequences are those
\* of the whole-scene enumeration; with a non-empty one the scope is
\* "selection" and only selected entities are in the sequences.
C20_SelectionDecidesScope ==
    Resolved =>
        IF events[1].selection = << >>
        THEN /\ current_context = "all"
             /\ << nodes, usd_nodes >> = classify(get_all_nodes, 1, events[1].data_type)
        ELSE /\ current_context = "selection"
             /\ Range(nodes) \cup Range(usd_nodes) \subseteq Range(events[1].selection)

\* one entity of a scene that has others is selected and resolved
C20_Witness ==
    /\ Resolved
    /\ Len(events[1].selection) = 1
    /\ current_context = "selection"
    /\ Range(nodes) \cup Range(usd_nodes) = Range(events[1].selection)
    /\ Len(get_all_nodes) > 1

-----------------------------------------------------------------------------
(* Properties of Spec: the filter, the end of a run, aborted runs, Clear.   *)

\* C24: a run() called with the filter MAYA hands no external entity to a
\* check, and one called with USD no native entity, whatever runs came before.
C24_FilterKeepsDomains ==
    \A i \in EventsOf("yield") :
        /\ events[i].data_type = MAYA => IsNative(events[i].node)
        /\ events[i].data_type = USD => IsExternal(events[i].node)

\* C25: a run() call that ends has emitted exactly one terminal signal, a
\* RunResult or a setup error (and the engine is idle again when it has
\* returned to the event loop).  A step that leaves a run() call suspended
\* ends with the progress signal of the iterator; any other step that did
\* something has ended a run() call.
C25_OneTerminalSignal ==
    (events # << >> /\ Last(events).sig # "progress") =>
        /\ Cardinality(EventsOf("result") \cup EventsOf("error")) = 1
        /\ stack = << >> => current_check = None

\* C28: after a run() that a raising check aborted (the step ends with the
\* exception and control is back in the event loop) the engine is as a fresh
\* one: no check is current, the cache is empty and the flag is false; and as
\* stop() does nothing while no check is current, the flag is false whenever
\* no run() is in progress, so that the next run() starts unflagged.
C28_AbortLeavesFreshEngine ==
    /\ (events # << >> /\ Last(events).sig = "raise" /\ stack = << >>)
          => (current_check = None /\ cached_data = EmptyDict /\ interrupt = FALSE)
    /\ stack = << >> => interrupt = FALSE

\* C29: a pass that Clear was delivered to at one of its yield points publishes
\* no RunResult when it goes on, and leaves get_result_object() empty.  The
\* pass is the only run() call made so far, suspended at a yield point, and both
\* entity lists are empty: run() returns at line 62 when it finds them so,
\* hence reset_contexts has been delivered at a yield point of this pass.
C29_ClearedPassPublishesNothing ==
    [][(calls = 1 /\ stack # << >> /\ nodes = << >> /\ usd_nodes = << >>
          /\ calls' = calls) =>
           (EventsOf("result")' = {} /\ result_object' = NoResult)]_vars

-----------------------------------------------------------------------------
(* The window: the Runner with the report pane, the verbosity combo box and  *)
(* the check boxes of the check widgets.  `report` is the state of the       *)
(* widgets:                                                                 *)
(*   verbosity_level   ReportUI.verbosity_level                             *)
(*   checked           the check widgets whose box is checked               *)
(*   text              the document of the QTextEdit, line by line          *)
(*   op                the slot that wrote to the report pane last          *)
(*   rendered          the result_object the last render_report was handed  *)
(*   boxes             what set the check boxes last: the constructor, a    *)
(*                     click on a box, or the Uncheck Passed button         *)
(* A slot connected to a signal runs inside emit(); an exception it raises  *)
(* is printed by the binding and emit() returns.                            *)

MaxUiCalls == 1

MaxUiCallsDeep == 2

MaxUiDepth == 1

\* ChecksUI.get_all_widgets(active=False): sorted by (category, label)
AllWidgets ==
    << [name |-> "default_shader", label |-> "Default Shader", node_type |-> NODE],
       [name |-> "trailing_number", label |-> "Trailing Number", node_type |-> NODE] >>

\* CheckWidget.check of the widget of a name
WidgetOf(name) == CHOOSE w \in Range(AllWidgets) : w.name = name

\* str.capitalize of a context key
capitalize(context) == IF context = "all" THEN "All" ELSE "Selection"

\* ReportUI._render_section_header: the header, or the exception it ends with
_render_section_header(ro, data_type, verbosity_level) ==
    LET check_widgets == ro.check_widgets
        section_nodes == IF data_type = "Maya" THEN ro.maya_nodes
                 ELSE ro.usd_nodes
        error_object == IF data_type = "Maya" THEN ro.maya_error_object
                        ELSE ro.usd_error_object
        head == [line |-> "header", context |-> capitalize(ro.context),
                 data_type |-> data_type]
        rendered_checks == [ i \in 1..Len(check_widgets) |-> WidgetOf(check_widgets[i]).label ]
    IN  IF verbosity_level = 0
        THEN [raised |-> FALSE,
              html |-> << head, [line |-> "checks_ran", count |-> Cardinality(DOMAIN error_object)],
                          [line |-> "nodes_checked", count |-> Len(section_nodes)] >>]
        ELSE IF data_type = "Maya" /\ truthy(section_nodes)
        THEN [raised |-> TRUE, html |-> << >>]
        ELSE [raised |-> FALSE,
              html |-> << head, [line |-> "checks_ran", labels |-> rendered_checks],
                          [line |-> "nodes_checked",
                           names |-> IF truthy(section_nodes) THEN section_nodes ELSE << << "N/A" >> >>] >>]

RECURSIVE render_checks(_, _, _, _, _)
\* render_report, lines 58-61 and 66-69: the loop over all_check_widgets from i
render_checks(all_check_widgets, i, error_object, data_type, verbosity_level) ==
    IF i > Len(all_check_widgets) THEN << >>
    ELSE LET check == all_check_widgets[i]
             rest == render_checks(all_check_widgets, i + 1, error_object, data_type,
                                   verbosity_level)
         IN  IF check.name \in DOMAIN error_object
             THEN (IF data_type = "Maya"
                   THEN render_maya_data_html(check, error_object[check.name], verbosity_level)
                   ELSE render_usd_data_html(check, error_object[check.name], verbosity_level))
                  \o rest
             ELSE rest

\* render_report, lines 53-69: the html it builds, or the exception
report_html(ro, all_check_widgets, verbosity_level) ==
    LET maya_header == _render_section_header(ro, "Maya", verbosity_level)
        usd_header == _render_section_header(ro, "USD", verbosity_level)
        maya == IF truthy(ro.maya_nodes)
                THEN maya_header.html
                     \o render_checks(all_check_widgets, 1, ro.maya_error_object,
                                      "Maya", verbosity_level)
                ELSE << >>
        usd == IF truthy(ro.usd_nodes)
               THEN usd_header.html
                    \o render_checks(all_check_widgets, 1, ro.usd_error_object,
                                     "USD", verbosity_level)
               ELSE << >>
    IN  [raised |-> \/ truthy(ro.maya_nodes) /\ maya_header.raised
                    \/ truthy(ro.usd_nodes) /\ usd_header.raised,
         html |-> maya \o usd]

\* QTextEdit.clear
clear(text) == << >>

\* QTextEdit.insertHtml into the document
insertHtml(text, html) == text \o html

\* a faulty render_report that does not clear the pane first: C22 must tell it
\* from the real one
render_report_appends(ui, ro, all_check_widgets) ==
    LET r == report_html(ro, all_check_widgets, ui.verbosity_level)
    IN  [ui EXCEPT !.rendered = ro,
                   !.text = IF r.raised THEN @ ELSE insertHtml(@, r.html)]

\* ReportUI.render_report
render_report(ui, ro, all_check_widgets) ==
    LET r == report_html(ro, all_check_widgets, ui.verbosity_level)
        cleared == clear(ui.text)
    IN  [ui EXCEPT !.rendered = ro,
                   !.text = IF r.raised THEN cleared ELSE insertHtml(cleared, r.html)]

\* ReportUI.set_error
set_error(ui, message) ==
    [ui EXCEPT !.text = insertHtml(clear(@), << [line |-> "error", message |-> message] >>)]

\* UI.handle_run_result and UI.handle_error_signal: the slots of the signals
\* of the Runner
slot(ui, e) ==
    IF e.sig = "result"
    THEN render_report([ui EXCEPT !.op = "handle_run_result"], e.result, AllWidgets)
    ELSE IF e.sig = "error"
    THEN set_error([ui EXCEPT !.op = "handle_error_signal"], e.error)
    ELSE ui

RECURSIVE deliver(_, _, _)
\* the signals a handler emitted, each delivered to its slot as it is emitted
deliver(ui, emitted, i) ==
    IF i > Len(emitted) THEN ui ELSE deliver(slot(ui, emitted[i]), emitted, i + 1)

\* UI.handle_verbose_level_change
handle_verbose_level_change(ui, ro) ==
    IF "maya_error_object" \in DOMAIN ro \/ "usd_error_object" \in DOMAIN ro
    THEN render_report([ui EXCEPT !.op = "handle_verbose_level_change"], ro, AllWidgets)
    ELSE ui

\* ChecksUI.uncheck_passed: the boxes left checked
uncheck_passed(error_object) ==
    { name \in CheckNames : name \in DOMAIN error_object /\ Len(error_object[name]) > 0 }

\* UI.handle_uncheck_passed
handle_uncheck_passed(ui, ro) ==
    IF "error_object" \in DOMAIN ro
    THEN [ui EXCEPT !.boxes = "uncheck_passed",
                    !.checked = uncheck_passed(ro.error_object)]
    ELSE [ui EXCEPT !.boxes = "uncheck_passed"]

\* UI.__init__: every box checked (CheckWidget.__init__), Overview, nothing shown
InitUi ==
    /\ InitRunner
    /\ host_scene = Scene
    /\ report = [verbosity_level |-> 0, checked |-> CheckNames, text |-> << >>,
                 op |-> "__init__", rendered |-> NoResult, boxes |-> "__init__"]

\* what is selected in the host when a Run button is clicked
UiSelections == Selections \cup { << N2 >> }

\* UI.run_all
UiRunAll ==
    \E data_type \in DataType, selection \in UiSelections :
        LET M == run(Now, ActiveWidgets(report.checked), data_type, TRUE, selection)
        IN  /\ calls < MaxUiCalls
            /\ Len(stack) < MaxUiDepth
            /\ calls' = calls + 1
            /\ CommitRunner(M)
            /\ report' = deliver(report, M.events, 1)
            /\ UNCHANGED host_scene

\* UI.handle_run
UiHandleRun ==
    \E check \in CheckNames, data_type \in DataType, selection \in UiSelections :
        LET M == run(Now, << check >>, data_type, FALSE, selection)
        IN  /\ calls < MaxUiCalls
            /\ Len(stack) < MaxUiDepth
            /\ calls' = calls + 1
            /\ CommitRunner(M)
            /\ report' = deliver(report, M.events, 1)
            /\ UNCHANGED host_scene

\* processEvents() returns to the iterator of the innermost suspended run()
UiProcessEventsReturn ==
    LET M == resume([Now EXCEPT !.stack = Front(@)], Last(stack))
    IN  /\ stack # << >>
        /\ CommitRunner(M)
        /\ report' = deliver(report, M.events, 1)
        /\ UNCHANGED << calls, host_scene >>

\* UI.keyPressEvent with the Escape key
UiStop ==
    /\ CommitRunner(stop(Now))
    /\ UNCHANGED << calls, host_scene, report >>

\* UI.clear
UiClear ==
    /\ CommitRunner(reset_contexts(Now))
    /\ report' = [report EXCEPT !.op = "clear", !.text = clear(@)]
    /\ UNCHANGED << calls, host_scene >>

\* ReportUI.update_verbosity_level: the combo box changes to another index
UpdateVerbosityLevel ==
    \E index \in 0..2 :
        /\ index # report.verbosity_level
        /\ CommitRunner(Now)
        /\ report' = handle_verbose_level_change([report EXCEPT !.verbosity_level = index],
                                                 Deref(heap, result_object))
        /\ UNCHANGED << calls, host_scene >>

\* the "Uncheck Passed" button
UncheckPassed ==
    /\ CommitRunner(Now)
    /\ report' = handle_uncheck_passed(report, Deref(heap, result_object))
    /\ UNCHANGED << calls, host_scene >>

\* the box of a check widget is clicked
ToggleChecked ==
    \E name \in CheckNames :
        /\ CommitRunner(Now)
        /\ report' = [report EXCEPT !.boxes = "clicked",
                                    !.checked = IF name \in @ THEN @ \ {name}
                                                ELSE @ \cup {name}]
        /\ UNCHANGED << calls, host_scene >>

\* the window while no one touches the check boxes
NextUi ==
    \/ UiRunAll
    \/ UiHandleRun
    \/ UiProcessEventsReturn
    \/ UiStop
    \/ UiClear
    \/ UpdateVerbosityLevel

SpecUi == InitUi /\ [][NextUi]_vars

\* the window with its check boxes and the Uncheck Passed button
NextBoxes ==
    \/ NextUi
    \/ UncheckPassed
    \/ ToggleChecked

SpecBoxes == InitUi /\ [][NextBoxes]_vars

\* The same window with one more click on a Run button.
UiRunAllDeep ==
    \E data_type \in DataType, selection \in UiSelections :
        LET M == run(Now, ActiveWidgets(report.checked), data_type, TRUE, selection)
        IN  /\ calls < MaxUiCallsDeep
            /\ Len(stack) < MaxUiDepth
            /\ calls' = calls + 1
            /\ CommitRunner(M)
            /\ report' = deliver(report, M.events, 1)
            /\ UNCHANGED host_scene

UiHandleRunDeep ==
    \E check \in CheckNames, data_type \in DataType, selection \in UiSelections :
        LET M == run(Now, << check >>, data_type, FALSE, selection)
        IN  /\ calls < MaxUiCallsDeep
            /\ Len(stack) < MaxUiDepth
            /\ calls' = calls + 1
            /\ CommitRunner(M)
            /\ report' = deliver(report, M.events, 1)
            /\ UNCHANGED host_scene

NextUiDeep ==
    \/ UiRunAllDeep
    \/ UiHandleRunDeep
    \/ UiProcessEventsReturn
    \/ UiStop
    \/ UiClear
    \/ UpdateVerbosityLevel

SpecUiDeep == InitUi /\ [][NextUiDeep]_vars

-----------------------------------------------------------------------------
(* Properties of SpecUi.                                                    *)

\* render_report wrote to the pane last
Rendered == report.op \in {"handle_run_result", "handle_verbose_level_change"}

\* what the pane shows once render_report has returned or raised
Rendering(ro, verbosity_level) ==
    LET r == report_html(ro, AllWidgets, verbosity_level)
    IN  IF r.raised THEN << >> ELSE r.html

\* C22: whenever render_report wrote the pane last, the pane shows what the
\* RunResult it was handed, the check descriptors and the verbosity determine
\* and nothing else (so rendering them again shows the same text); and a
\* rendering that a change of verbosity asks for changes neither the RunResult
\* nor the check boxes.
C22_RenderingIsIdempotent ==
    [][/\ Rendered'
            => report'.text = Rendering(report'.rendered, report'.verbosity_level)
       /\ report'.verbosity_level # report.verbosity_level
            => /\ Deref(heap', result_object') = Deref(heap, result_object)
               /\ report'.checked = report.checked]_vars

\* C22, its case: the RunResult the last run published, and the pane showed
\* then, is shown again after the verbosity changed back to Overview, with a
\* section in the pane.
C22_Witness ==
    /\ report.op = "handle_verbose_level_change"
    /\ report.verbosity_level = 0
    /\ HasResult(result_object)
    /\ report.rendered = Deref(heap, result_object)
    /\ Len(report.text) > 3

\* the sections the pane shows of the rendered RunResult hold an entry of the
\* check, and every such entry is empty
PassesWhereShown(ro, name) ==
    LET maya == truthy(ro.maya_nodes) /\ name \in DOMAIN ro.maya_error_object
        usd == truthy(ro.usd_nodes) /\ name \in DOMAIN ro.usd_error_object
    IN  /\ maya \/ usd
        /\ maya => ~truthy(ro.maya_error_object[name])
        /\ usd => ~truthy(ro.usd_error_object[name])

\* the Runner has no entity of a domain the check has a method for
NoEntitiesFor(check) ==
    /\ SupportsNative(check) => nodes = << >>
    /\ SupportsExternal(check) => usd_nodes = << >>

\* the check the step started at events[i] ran to its end in the step without
\* raising: line 82 reported progress and line 84 was handed "no error"
PassedOverNothing(i) ==
    \E j \in EventsOf("update_ui") :
        /\ j > i
        /\ events[j].check = events[i].check
        /\ ~events[j].had_error
        /\ \A k \in (i + 1)..(j - 1) : events[k].sig \in {"progress", "cache_read"}

C26_ErrorStaysShown ==
    [][(report.op = "handle_error_signal" /\ stack = << >>
          /\ calls' = calls /\ report'.op # "clear")
           => report'.text = report.text]_vars

\* the pane shows a section of the domain
Section(data_type) ==
    \E k \in 1..Len(report.text) :
        report.text[k].line = "header" /\ report.text[k].data_type = data_type

\* the line of the header of the domain's section, k lines below its title
HeaderLine(data_type, k) ==
    LET h == CHOOSE h \in 1..Len(report.text) :
                 report.text[h].line = "header" /\ report.text[h].data_type = data_type
    IN  report.text[h + k]

\* the checks the run of a "result" event evaluated and stored for the domain
StoredBy(e, data_type) ==
    { name \in FirstChecks(e.result.check_widgets, e.evaluated) :
        IF data_type = "Maya"
        THEN e.data_type # USD /\ get_data_type(name) # USD
        ELSE e.data_type # MAYA /\ get_data_type(name) # MAYA }

\* C27: when a run has published and the pane shows its RunResult at Overview,
\* "Checks Ran" of each section is the number of checks that run evaluated and
\* stored for the domain, which is also the number of check labels the header
\* lists above Overview, and "Nodes checked" is the number of entities of the
\* domain the Runner holds.
C27_HeaderCountsTheRun ==
    (report.op = "handle_run_result" /\ report.verbosity_level = 0 /\ EventsOf("result") # {}) =>
        LET e == events[CHOOSE i \in EventsOf("result") : \A j \in EventsOf("result") : j <= i]
        IN  \A data_type \in {"Maya", "USD"} :
                Section(data_type) =>
                    /\ HeaderLine(data_type, 1).count = Cardinality(StoredBy(e, data_type))
                    /\ HeaderLine(data_type, 1).count = Len(e.result.check_widgets)
                    /\ HeaderLine(data_type, 2).count =
                           Len(IF data_type = "Maya" THEN nodes ELSE usd_nodes)

\* the checks with a non-empty stored result in a RunResult
Failing(ro) ==
    { name \in CheckNames :
        \/ name \in DOMAIN ro.maya_error_object /\ truthy(ro.maya_error_object[name])
        \/ name \in DOMAIN ro.usd_error_object /\ truthy(ro.usd_error_object[name]) }

\* C30: once a run has published a RunResult and Uncheck Passed was the last
\* to set the check boxes, the boxes checked are exactly those of the checks
\* whose stored result in the RunResult is non-empty.
C30_UncheckPassedKeepsFailing ==
    (report.boxes = "uncheck_passed" /\ HasResult(result_object))
        => report.checked = Failing(Deref(heap, result_object))

====
